---------------------------- MODULE Spec2Model ----------------------------
(***************************************************************************)
(* A model of the two view components of the repository screen:           *)
(*   - ChangesSidebar   (src/unnamed/part_000)                             *)
(*   - RepositoryView   (src/app/src/ui/repository.tsx)                    *)
(* Each React lifecycle method and each event handler is one action.  The  *)
(* dispatcher calls a handler makes are recorded, in order, in `calls`;    *)
(* `last` records which operation ran and with which arguments.            *)
(***************************************************************************)
EXTENDS Integers, Sequences, FiniteSets, TLC

VARIABLES
    props,                   \* ChangesSidebar: this.props
    mounted,                 \* ChangesSidebar: constructed
    autocompletionProviders, \* ChangesSidebar: this.autocompletionProviders
    allocs,                  \* number of provider arrays allocated so far
    rvProps,                 \* RepositoryView: this.props
    rvMounted,               \* RepositoryView: componentWillMount has run
    sectionOf,               \* the store's selected section, per repository id
    last,                    \* the operation that ran last, with its arguments
    calls,                   \* the dispatcher calls made by the last operation
    defaultPrevented,        \* e.preventDefault() was called by the last operation
    view                     \* what the last render produced

vars == <<props, mounted, autocompletionProviders, allocs, rvProps, rvMounted,
          sectionOf, last, calls, defaultPrevented, view>>

sidebarVars == <<props, mounted, autocompletionProviders, allocs>>
viewVars == <<rvProps, rvMounted, sectionOf>>

----------------------------------------------------------------------------
(* Bounds *)

\* The number of provider arrays the model lets the sidebar allocate.
MaxAllocs == 3
\* The longest working-directory file list.
MaxFiles == 2

----------------------------------------------------------------------------
(* Values *)

\* const enum Tab
TabChanges == 0
TabHistory == 1
Tabs == {TabChanges, TabHistory}

\* RepositorySection has the members Changes and History; "Other" stands for
\* a runtime value outside the enum (the case the assertNever branches are
\* written for).
SectionChanges == "Changes"
SectionHistory == "History"
SectionOther == "Other"
RepositorySection == {SectionChanges, SectionHistory}
SectionValues == RepositorySection \cup {SectionOther}

\* A repository's gitHubRepository is null or an object with an endpoint.
NoGitHubRepository == "null"
Endpoints == {"github.com", "ghe.local"}
RepoIds == {1, 2}
RepoNames == {"welder", "desktop"}
Repositories ==
    [id : RepoIds, name : RepoNames,
     gitHubRepository : Endpoints \cup {NoGitHubRepository}]

\* Accounts.  NoAccount is `undefined`, what Array.prototype.find gives on a miss.
NoAccount == [login |-> "", endpoint |-> ""]
AccountA == [login |-> "a", endpoint |-> "github.com"]
AccountB == [login |-> "b", endpoint |-> "ghe.local"]
AccountC == [login |-> "c", endpoint |-> "github.com"]
AccountContents ==
    { <<>>, <<AccountA>>, <<AccountB>>, <<AccountC, AccountA>> }
\* An accounts array is an object: two arrays with the same items are still
\* two arrays.  `ref` tells them apart, so record equality is `===`.
AccountsArrays == [ref : {1, 2}, items : AccountContents]

\* The emoji map is an object too; only its identity matters here.
EmojiMaps == {1, 2}

\* Working-directory files.
SelectionNone == "None"
SelectionPartial == "Partial"
SelectionAll == "All"
DiffSelectionType == {SelectionNone, SelectionPartial, SelectionAll}
Paths == {"a.ts", "b.ts"}
Files == [path : Paths, selection : DiffSelectionType]
\* `undefined`, what files[row] and files.find give on a miss.
NoFile == [path |-> "", selection |-> ""]

DistinctPaths(fs) ==
    \A i, j \in DOMAIN fs : i # j => fs[i].path # fs[j].path
FileLists ==
    UNION { {fs \in [1..n -> Files] : DistinctPaths(fs)} : n \in 0..MaxFiles }

ClickSources == {"keyboard", "mouseclick"}
Keys == {"Tab", "Enter", "a"}
KeyEvents == [ctrlKey : BOOLEAN, key : Keys]

\* IChangesSidebarProps: the fields the modelled code reads.
SidebarProps ==
    [repository : Repositories, accounts : AccountsArrays, emoji : EmojiMaps,
     files : FileLists, askForConfirmationOnDiscardChanges : BOOLEAN]

DefaultRepository ==
    [id |-> 1, name |-> "welder", gitHubRepository |-> NoGitHubRepository]
DefaultAccounts == [ref |-> 1, items |-> <<>>]
DefaultProps ==
    [repository |-> DefaultRepository, accounts |-> DefaultAccounts,
     emoji |-> 1, files |-> <<>>,
     askForConfirmationOnDiscardChanges |-> FALSE]

\* IRepositoryProps: the fields the modelled code reads.
\*   selectedSection is props.state.selectedSection,
\*   files is props.state.changesState.workingDirectory.files.
ViewProps ==
    [repository : Repositories, selectedSection : SectionValues,
     files : FileLists]
DefaultViewProps ==
    [repository |-> DefaultRepository, selectedSection |-> SectionChanges,
     files |-> <<>>]

----------------------------------------------------------------------------
(* Records of what an operation did *)

NoOp ==
    [op |-> "none", row |-> 0, path |-> "", include |-> FALSE, source |-> "",
     file |-> NoFile, files |-> <<>>, ctrlKey |-> FALSE, key |-> ""]
Op(name) == [NoOp EXCEPT !.op = name]

NoCall ==
    [op |-> "none", repository |-> DefaultRepository, section |-> "",
     file |-> NoFile, files |-> <<>>, include |-> FALSE, popup |-> ""]
Call(name, repository) ==
    [NoCall EXCEPT !.op = name, !.repository = repository]

NoView ==
    [rendered |-> FALSE, selectedTab |-> TabChanges, hasChanges |-> FALSE,
     sidebars |-> {}, content |-> "none", fatal |-> FALSE,
     providers |-> <<>>]

----------------------------------------------------------------------------
(* ChangesSidebar: the autocompletion provider cache *)

\* The field is declared without an initialiser: it is undefined until
\* receiveProps assigns it.  id 0 is that undefined value; an allocated
\* array has id >= 1, and two arrays are the same array iff their ids agree.
NoProviders == [id |-> 0, list |-> <<>>]

EmojiAutocompletionProvider(emoji) ==
    [kind |-> "emoji", emoji |-> emoji,
     gitHubRepository |-> NoGitHubRepository, account |-> NoAccount]
IssuesAutocompletionProvider(gitHubRepository) ==
    [kind |-> "issues", emoji |-> 0,
     gitHubRepository |-> gitHubRepository, account |-> NoAccount]
UserAutocompletionProvider(gitHubRepository, account) ==
    [kind |-> "user", emoji |-> 0,
     gitHubRepository |-> gitHubRepository, account |-> account]

\* accounts.find(a => a.endpoint === endpoint): the first match, or undefined.
FindAccount(items, endpoint) ==
    LET hits == {i \in DOMAIN items : items[i].endpoint = endpoint}
    IN  IF hits = {} THEN NoAccount
        ELSE items[CHOOSE i \in hits : \A j \in hits : i <= j]

\* The condition of receiveProps, with the accounts comparison left out.
ShouldRebuild_NoAccounts(thisProps, nextProps, current) ==
    \/ nextProps.repository.id # thisProps.repository.id
    \/ current = NoProviders

\* The condition of receiveProps: `thisProps` is this.props, `nextProps` the
\* argument, `current` this.autocompletionProviders.
ShouldRebuild(thisProps, nextProps, current) ==
    \/ nextProps.repository.id # thisProps.repository.id
    \/ current = NoProviders
    \/ nextProps.accounts # thisProps.accounts

\* The body of the if with the user provider pushed only for a found account.
BuildProviders_UserOnlyIfFound(thisProps, nextProps) ==
    LET gitHubRepository == nextProps.repository.gitHubRepository
        account == FindAccount(thisProps.accounts.items, gitHubRepository)
    IN  <<EmojiAutocompletionProvider(thisProps.emoji)>> \o
        ( IF gitHubRepository # NoGitHubRepository
          THEN <<IssuesAutocompletionProvider(gitHubRepository)>> \o
               ( IF account # NoAccount
                 THEN <<UserAutocompletionProvider(gitHubRepository, account)>>
                 ELSE <<>> )
          ELSE <<>> )

\* The body of the if in receiveProps: the emoji map and the accounts are read
\* from this.props, the repository from the argument.
BuildProviders(thisProps, nextProps) ==
    LET gitHubRepository == nextProps.repository.gitHubRepository
        account == FindAccount(thisProps.accounts.items, gitHubRepository)
    IN  <<EmojiAutocompletionProvider(thisProps.emoji)>> \o
        ( IF gitHubRepository # NoGitHubRepository
          THEN << IssuesAutocompletionProvider(gitHubRepository),
                  UserAutocompletionProvider(gitHubRepository, account) >>
          ELSE <<>> )

\* receiveProps(nextProps) with this.props = thisProps.
receiveProps(thisProps, nextProps) ==
    IF ShouldRebuild(thisProps, nextProps, autocompletionProviders)
    THEN /\ allocs < MaxAllocs
         /\ allocs' = allocs + 1
         /\ autocompletionProviders' =
                [id |-> allocs + 1, list |-> BuildProviders(thisProps, nextProps)]
    ELSE UNCHANGED <<allocs, autocompletionProviders>>

\* constructor(props): super(props) sets this.props, then receiveProps(props).
ChangesSidebar_constructor(p) ==
    /\ ~mounted
    /\ mounted' = TRUE
    /\ props' = p
    /\ receiveProps(p, p)
    /\ last' = Op("constructor")
    /\ calls' = <<>>
    /\ defaultPrevented' = FALSE
    /\ view' = NoView
    /\ UNCHANGED viewVars

\* componentWillReceiveProps(nextProps): this.props is still the old props.
ChangesSidebar_componentWillReceiveProps(nextProps) ==
    /\ mounted
    /\ receiveProps(props, nextProps)
    /\ props' = nextProps
    /\ last' = Op("componentWillReceiveProps")
    /\ calls' = <<>>
    /\ defaultPrevented' = FALSE
    /\ view' = NoView
    /\ UNCHANGED <<mounted, viewVars>>

\* render(): hands this.autocompletionProviders! to ChangesList.
ChangesSidebar_render ==
    /\ mounted
    /\ last' = Op("render")
    /\ calls' = <<>>
    /\ defaultPrevented' = FALSE
    /\ view' = [NoView EXCEPT !.rendered = TRUE,
                              !.providers = autocompletionProviders.list]
    /\ UNCHANGED <<sidebarVars, viewVars>>

\* Before either component is constructed.
Init ==
    /\ props = DefaultProps
    /\ mounted = FALSE
    /\ autocompletionProviders = NoProviders
    /\ allocs = 0
    /\ rvProps = DefaultViewProps
    /\ rvMounted = FALSE
    /\ sectionOf = [id \in RepoIds |-> SectionChanges]
    /\ last = NoOp
    /\ calls = <<>>
    /\ defaultPrevented = FALSE
    /\ view = NoView

\* The props the provider cache is exercised with: every repository, accounts
\* array and emoji map; the file list and the confirmation flag stay put.
ProviderProps ==
    {p \in SidebarProps :
        p.files = <<>> /\ p.askForConfirmationOnDiscardChanges = FALSE}

NextProviders ==
    \/ \E p \in ProviderProps : ChangesSidebar_constructor(p)
    \/ \E p \in ProviderProps : ChangesSidebar_componentWillReceiveProps(p)
    \/ ChangesSidebar_render

SpecProviders == Init /\ [][NextProviders]_vars

----------------------------------------------------------------------------
(* Claims about the provider cache, checked under SpecProviders *)

\* A step that ran the constructor or componentWillReceiveProps.
PropsStep == last'.op \in {"constructor", "componentWillReceiveProps"}
\* this.props as receiveProps sees it during the step: the constructor has
\* already set it to its argument, componentWillReceiveProps has not.
ThisPropsInStep == IF mounted THEN props ELSE props'
\* The step allocated a provider array: one with an identity not used before.
Replaced ==
    /\ autocompletionProviders'.id > allocs
    /\ autocompletionProviders'.id # autocompletionProviders.id

\* C1: the cached provider list is replaced by a newly built one on a step
\* iff the step is the construction or a property update on which the
\* incoming repository id differs from the previous props' id, or the
\* incoming accounts reference differs from the previous props' reference, or
\* no list exists yet; on every other step the cached list is the same array.
C1_RebuildIff ==
    [][ LET changed ==
              \/ props'.repository.id # ThisPropsInStep.repository.id
              \/ props'.accounts # ThisPropsInStep.accounts
              \/ autocompletionProviders = NoProviders
        IN  IF PropsStep /\ changed
            THEN Replaced
            ELSE autocompletionProviders' = autocompletionProviders ]_vars

\* An update that delivered a new emoji map and left the cached array alone:
\* the one array built by the constructor is still in place.
C1_Witness ==
    /\ mounted
    /\ last.op = "componentWillReceiveProps"
    /\ allocs = 1
    /\ autocompletionProviders.id = 1
    /\ autocompletionProviders.list[1].emoji # props.emoji

\* The account a user provider of `list` is bound to is the first account of
\* `items` with the endpoint `gh`, or none when `items` has no such account.
BoundToFirstMatch(list, items, gh) ==
    LET a == list[3].account
    IN  \/ /\ a = NoAccount
           /\ \A i \in DOMAIN items : items[i].endpoint # gh
        \/ \E i \in DOMAIN items :
              /\ items[i] = a
              /\ a.endpoint = gh
              /\ \A j \in 1..(i - 1) : items[j].endpoint # gh

\* C2 (as amended): a rebuilt list is [emoji] when the incoming repository has
\* no linked hosting entity, and [emoji, issues, user] when it has one: the
\* user provider is always there, bound to the first account of
\* this.props.accounts with the entity's endpoint, or to no account.
C2_ProviderList ==
    [][ Replaced =>
          LET list == autocompletionProviders'.list
              gh == props'.repository.gitHubRepository
          IN  /\ list[1].kind = "emoji"
              /\ gh = NoGitHubRepository => Len(list) = 1
              /\ gh # NoGitHubRepository =>
                    /\ Len(list) = 3
                    /\ list[2].kind = "issues"
                    /\ list[2].gitHubRepository = gh
                    /\ list[3].kind = "user"
                    /\ list[3].gitHubRepository = gh
                    /\ BoundToFirstMatch(list, ThisPropsInStep.accounts.items, gh)
      ]_vars

\* A list built for a linked repository while no account has its endpoint:
\* three providers, the user provider bound to no account.
C2_Witness ==
    /\ mounted
    /\ props.repository.gitHubRepository = "ghe.local"
    /\ \A i \in DOMAIN props.accounts.items :
          props.accounts.items[i].endpoint # "ghe.local"
    /\ last.op = "constructor"
    /\ Len(autocompletionProviders.list) = 3
    /\ autocompletionProviders.list[3].kind = "user"
    /\ autocompletionProviders.list[3].account = NoAccount

\* C2 (as stated): with a linked entity the list is emoji, issues, and a
\* user provider exactly when an account with the entity's endpoint is found
\* (two providers without a matching account, three with one).
C2_Original ==
    [][ Replaced =>
          LET list == autocompletionProviders'.list
              gh == props'.repository.gitHubRepository
              items == ThisPropsInStep.accounts.items
              found == \E i \in DOMAIN items : items[i].endpoint = gh
          IN  /\ list[1].kind = "emoji"
              /\ gh = NoGitHubRepository => Len(list) = 1
              /\ gh # NoGitHubRepository =>
                    /\ Len(list) = IF found THEN 3 ELSE 2
                    /\ list[2].kind = "issues"
                    /\ found => /\ list[3].kind = "user"
                                /\ BoundToFirstMatch(list, items, gh)
      ]_vars

\* C10: after construction and after every property update the cached list
\* is non-null and equals what a fresh build from the delivered props gives:
\* emoji from the delivered map, issues and user present exactly when the
\* delivered repository is linked, user bound to the account found by
\* endpoint in the delivered accounts.
C10_CacheCurrent ==
    mounted =>
        LET list == autocompletionProviders.list
            gh == props.repository.gitHubRepository
        IN  /\ autocompletionProviders # NoProviders
            /\ list[1] = EmojiAutocompletionProvider(props.emoji)
            /\ gh = NoGitHubRepository => Len(list) = 1
            /\ gh # NoGitHubRepository =>
                  /\ Len(list) = 3
                  /\ list[2] = IssuesAutocompletionProvider(gh)
                  /\ list[3] = UserAutocompletionProvider(
                                   gh, FindAccount(props.accounts.items, gh))

----------------------------------------------------------------------------
(* ChangesSidebar: the list handlers *)

\* files[row], a zero-based index: undefined outside the array.
FileAt(files, row) ==
    IF row + 1 \in DOMAIN files THEN files[row + 1] ELSE NoFile

\* files.find(f => f.path === path): the first match, or undefined.
FindFile(files, path) ==
    LET hits == {i \in DOMAIN files : files[i].path = path}
    IN  IF hits = {} THEN NoFile
        ELSE files[CHOOSE i \in hits : \A j \in hits : i <= j]

\* What every sidebar handler leaves alone: no handler touches the
\* component's own state.
HandlerFrame ==
    /\ defaultPrevented' = FALSE
    /\ view' = NoView
    /\ UNCHANGED <<sidebarVars, viewVars>>

onFileSelectionChanged(row) ==
    /\ mounted
    /\ last' = [Op("onFileSelectionChanged") EXCEPT !.row = row]
    /\ calls' = << [Call("changeChangesSelection", props.repository)
                       EXCEPT !.file = FileAt(props.files, row)] >>
    /\ HandlerFrame

onIncludeChanged(path, include) ==
    /\ mounted
    /\ last' = [Op("onIncludeChanged") EXCEPT !.path = path, !.include = include]
    /\ calls' = LET file == FindFile(props.files, path)
                IN  IF file = NoFile
                    THEN <<>>    \* console.error, return
                    ELSE << [Call("changeFileIncluded", props.repository)
                                EXCEPT !.file = file, !.include = include] >>
    /\ HandlerFrame

onSelectAll(selectAll) ==
    /\ mounted
    /\ last' = [Op("onSelectAll") EXCEPT !.include = selectAll]
    /\ calls' = << [Call("changeIncludeAllFiles", props.repository)
                       EXCEPT !.include = selectAll] >>
    /\ HandlerFrame

\* The two branches of the discard handlers, taken the wrong way round.
DiscardCalls_Inverted(thisProps, files) ==
    IF thisProps.askForConfirmationOnDiscardChanges
    THEN << [Call("discardChanges", thisProps.repository) EXCEPT !.files = files] >>
    ELSE << [Call("showPopup", thisProps.repository)
                EXCEPT !.popup = "ConfirmDiscardChanges", !.files = files] >>

\* The body shared by onDiscardChanges (files = [file]) and onDiscardAllChanges.
DiscardCalls(thisProps, files) ==
    IF ~thisProps.askForConfirmationOnDiscardChanges
    THEN << [Call("discardChanges", thisProps.repository) EXCEPT !.files = files] >>
    ELSE << [Call("showPopup", thisProps.repository)
                EXCEPT !.popup = "ConfirmDiscardChanges", !.files = files] >>

onDiscardChanges(file) ==
    /\ mounted
    /\ last' = [Op("onDiscardChanges") EXCEPT !.file = file]
    /\ calls' = DiscardCalls(props, <<file>>)
    /\ HandlerFrame

onDiscardAllChanges(files) ==
    /\ mounted
    /\ last' = [Op("onDiscardAllChanges") EXCEPT !.files = files]
    /\ calls' = DiscardCalls(props, files)
    /\ HandlerFrame

\* onToggleInclude with a fully selected file left included.
onToggleInclude_KeepAll(thisProps, row) ==
    LET file == FileAt(thisProps.files, row)
    IN  IF file = NoFile
        THEN <<>>
        ELSE << [Call("changeFileIncluded", thisProps.repository)
                    EXCEPT !.file = file,
                           !.include = (file.selection # SelectionPartial)] >>

\* onToggleInclude(row): the calls it makes.
onToggleInclude(thisProps, row) ==
    LET file == FileAt(thisProps.files, row)
    IN  IF file = NoFile
        THEN <<>>    \* console.error, return
        ELSE << [Call("changeFileIncluded", thisProps.repository)
                    EXCEPT !.file = file,
                           !.include = (file.selection = SelectionNone)] >>

onChangedItemClick(row, source) ==
    /\ mounted
    /\ last' = [Op("onChangedItemClick") EXCEPT !.row = row, !.source = source]
    /\ calls' = IF source = "keyboard" THEN onToggleInclude(props, row) ELSE <<>>
    /\ HandlerFrame

\* The props the handlers are exercised with: every file list and both
\* values of the confirmation flag, for two repositories.
HandlerRepositories ==
    { DefaultRepository,
      [id |-> 2, name |-> "desktop", gitHubRepository |-> "github.com"] }
HandlerProps ==
    {p \in SidebarProps :
        /\ p.repository \in HandlerRepositories
        /\ p.accounts = DefaultAccounts
        /\ p.emoji = 1}

\* Row indexes a list may hand over: in range, one past the end, and -1.
Rows == -1 .. MaxFiles

NextHandlers ==
    \/ \E p \in HandlerProps : ChangesSidebar_constructor(p)
    \/ \E p \in HandlerProps : ChangesSidebar_componentWillReceiveProps(p)
    \/ \E row \in Rows : onFileSelectionChanged(row)
    \/ \E path \in Paths \cup {"c.ts"}, include \in BOOLEAN :
          onIncludeChanged(path, include)
    \/ \E selectAll \in BOOLEAN : onSelectAll(selectAll)
    \/ \E file \in Files : onDiscardChanges(file)
    \/ \E files \in FileLists : onDiscardAllChanges(files)
    \/ \E row \in Rows, source \in ClickSources : onChangedItemClick(row, source)

SpecHandlers == Init /\ [][NextHandlers]_vars

----------------------------------------------------------------------------
(* Claims about the list handlers, checked under SpecHandlers *)

\* C4: both discard handlers call discardChanges with the repository and
\* exactly the requested files, and never showPopup, when confirmation is
\* off; they call showPopup with a ConfirmDiscardChanges popup carrying the
\* repository and exactly the requested files, and never discardChanges,
\* when it is on.
C4_Discard ==
    LET requested == IF last.op = "onDiscardChanges"
                     THEN <<last.file>> ELSE last.files
    IN  last.op \in {"onDiscardChanges", "onDiscardAllChanges"} =>
          /\ Len(calls) = 1
          /\ calls[1].repository = props.repository
          /\ calls[1].files = requested
          /\ calls[1].op = IF props.askForConfirmationOnDiscardChanges
                           THEN "showPopup" ELSE "discardChanges"
          /\ calls[1].popup = IF props.askForConfirmationOnDiscardChanges
                              THEN "ConfirmDiscardChanges" ELSE ""

\* A bulk discard of two files with confirmation on: one popup, both files.
C4_Witness ==
    /\ last.op = "onDiscardAllChanges"
    /\ props.askForConfirmationOnDiscardChanges
    /\ Len(last.files) = 2
    /\ Len(calls) = 1
    /\ calls[1].op = "showPopup"
    /\ calls[1].files = last.files

\* C5: a keyboard row activation on a row that holds a file dispatches
\* exactly one changeFileIncluded for that file, with include = TRUE when
\* its selection is None and FALSE when it is Partial or All; a pointer
\* activation makes no dispatcher call.
C5_RowClick ==
    last.op = "onChangedItemClick" =>
        IF last.source = "keyboard"
        THEN last.row + 1 \in DOMAIN props.files =>
               /\ Len(calls) = 1
               /\ calls[1].op = "changeFileIncluded"
               /\ calls[1].repository = props.repository
               /\ calls[1].file = props.files[last.row + 1]
               /\ calls[1].include =
                     (props.files[last.row + 1].selection = SelectionNone)
        ELSE calls = <<>>

\* A keyboard activation of the second row, whose file is fully selected.
C5_Witness ==
    /\ last.op = "onChangedItemClick"
    /\ last.source = "keyboard"
    /\ last.row = 1
    /\ Len(props.files) = 2
    /\ props.files[2].selection = SelectionAll
    /\ Len(calls) = 1
    /\ calls[1].include = FALSE

\* C7: in onIncludeChanged (by path), onToggleInclude and
\* onFileSelectionChanged (by row index), when no file is found for the path
\* or index the action is dropped: no dispatcher call is made.
C7_LookupMissDropped ==
    /\ ( /\ last.op = "onIncludeChanged"
         /\ \A i \in DOMAIN props.files : props.files[i].path # last.path )
       => calls = <<>>
    /\ ( /\ last.op = "onChangedItemClick"
         /\ last.source = "keyboard"
         /\ last.row + 1 \notin DOMAIN props.files )
       => calls = <<>>
    /\ ( /\ last.op = "onFileSelectionChanged"
         /\ last.row + 1 \notin DOMAIN props.files )
       => calls = <<>>

----------------------------------------------------------------------------
(* RepositoryView *)

\* The dispatcher of the claims about navigation: it applies each
\* changeRepositorySection request, in order, by setting the selected section
\* of the request's repository to the requested value.
RECURSIVE ApplySectionRequests(_, _)
ApplySectionRequests(store, cs) ==
    IF cs = <<>> THEN store
    ELSE ApplySectionRequests(
             IF Head(cs).op = "changeRepositorySection"
             THEN [store EXCEPT ![Head(cs).repository.id] = Head(cs).section]
             ELSE store,
             Tail(cs))

\* onTabClicked(tab, props): the request goes to this.props.dispatcher, for
\* the repository of the props passed in.
onTabClicked(tab, thisProps, p) ==
    [Call("changeRepositorySection", p.repository)
        EXCEPT !.section = IF tab = TabHistory
                           THEN SectionHistory ELSE SectionChanges]

\* The comparison of componentWillReceiveProps made on the repository id.
RepositoryNameChanged_ById(thisProps, nextProps) ==
    thisProps.repository.id # nextProps.repository.id

\* The condition of componentWillReceiveProps.
RepositoryNameChanged(thisProps, nextProps) ==
    thisProps.repository.name # nextProps.repository.name

\* componentWillMount(): this.props is the props the view was created with.
\* The state snapshot in the props is the store's at that moment.
RepositoryView_componentWillMount(p) ==
    /\ ~rvMounted
    /\ p.selectedSection = sectionOf[p.repository.id]
    /\ rvMounted' = TRUE
    /\ rvProps' = p
    /\ LET cs == << onTabClicked(TabChanges, p, p),
                    onTabClicked(TabHistory, p, p) >>
       IN  /\ calls' = cs
           /\ sectionOf' = ApplySectionRequests(sectionOf, cs)
    /\ last' = Op("componentWillMount")
    /\ defaultPrevented' = FALSE
    /\ view' = NoView
    /\ UNCHANGED sidebarVars

RepositoryView_componentWillReceiveProps(nextProps) ==
    /\ rvMounted
    /\ nextProps.selectedSection = sectionOf[nextProps.repository.id]
    /\ LET cs == IF RepositoryNameChanged(rvProps, nextProps)
                 THEN << onTabClicked(TabChanges, rvProps, nextProps),
                         onTabClicked(TabHistory, rvProps, nextProps) >>
                 ELSE <<>>
       IN  /\ calls' = cs
           /\ sectionOf' = ApplySectionRequests(sectionOf, cs)
    /\ rvProps' = nextProps
    /\ last' = Op("view.componentWillReceiveProps")
    /\ defaultPrevented' = FALSE
    /\ view' = NoView
    /\ UNCHANGED <<rvMounted, sidebarVars>>

\* renderTabs(): the selected tab and the dot indicator.
renderTabs(p) ==
    [selectedTab |-> IF p.selectedSection = SectionChanges
                     THEN TabChanges ELSE TabHistory,
     hasChanges |-> Len(p.files) > 0]

\* renderContent(): the panel for the selected section, or assertNever.
\* (The selected file and the diff are not modelled: a non-empty file list
\* stands for "there is something to show".)
renderContent(p) ==
    CASE p.selectedSection = SectionChanges ->
             [content |-> IF Len(p.files) = 0 THEN "NoChanges" ELSE "Changes",
              fatal |-> FALSE]
      [] p.selectedSection = SectionHistory ->
             [content |-> "History", fatal |-> FALSE]
      [] OTHER ->
             [content |-> "none", fatal |-> TRUE]

\* render(): renderSidebar() mounts both sidebars under the tab bar;
\* the content is `false && this.renderContent()`, so renderContent is not
\* called.
RepositoryView_render ==
    /\ rvMounted
    /\ LET tabs == renderTabs(rvProps)
           content == IF FALSE
                      THEN renderContent(rvProps)
                      ELSE [content |-> "none", fatal |-> FALSE]
       IN  view' = [rendered |-> TRUE,
                    selectedTab |-> tabs.selectedTab,
                    hasChanges |-> tabs.hasChanges,
                    sidebars |-> {"changes", "history"},
                    content |-> content.content,
                    fatal |-> content.fatal,
                    providers |-> <<>>]
    /\ last' = Op("view.render")
    /\ calls' = <<>>
    /\ defaultPrevented' = FALSE
    /\ UNCHANGED <<sidebarVars, viewVars>>

\* The section of onKeyDown with the two outcomes exchanged.
KeyDownSection_Swapped(selectedSection) ==
    IF selectedSection = SectionHistory THEN SectionHistory ELSE SectionChanges

\* The section onKeyDown asks for.
KeyDownSection(selectedSection) ==
    IF selectedSection = SectionHistory THEN SectionChanges ELSE SectionHistory

onKeyDown(e) ==
    /\ rvMounted
    /\ LET handled == e.ctrlKey /\ e.key = "Tab"
           cs == IF handled
                 THEN << [Call("changeRepositorySection", rvProps.repository)
                             EXCEPT !.section =
                                 KeyDownSection(rvProps.selectedSection)] >>
                 ELSE <<>>
       IN  /\ calls' = cs
           /\ defaultPrevented' = handled
           /\ sectionOf' = ApplySectionRequests(sectionOf, cs)
    /\ last' = [Op("onKeyDown") EXCEPT !.ctrlKey = e.ctrlKey, !.key = e.key]
    /\ view' = NoView
    /\ UNCHANGED <<rvProps, rvMounted, sidebarVars>>

\* openRepository: reveal the repository's folder.
openRepository ==
    /\ rvMounted
    /\ calls' = << [Call("revealInFileManager", rvProps.repository)
                       EXCEPT !.file = NoFile] >>
    /\ last' = Op("openRepository")
    /\ defaultPrevented' = FALSE
    /\ view' = NoView
    /\ UNCHANGED <<sidebarVars, viewVars>>

\* The store may hold any section value for a repository when the view is
\* created, a value outside the enum included.
InitView ==
    /\ props = DefaultProps
    /\ mounted = FALSE
    /\ autocompletionProviders = NoProviders
    /\ allocs = 0
    /\ rvProps = DefaultViewProps
    /\ rvMounted = FALSE
    /\ sectionOf \in [RepoIds -> SectionValues]
    /\ last = NoOp
    /\ calls = <<>>
    /\ defaultPrevented = FALSE
    /\ view = NoView

\* The props the view is exercised with: every repository, an empty and a
\* non-empty file list.
ViewFileLists ==
    {fs \in FileLists :
        \A i \in DOMAIN fs :
            fs[i].path = "a.ts" /\ fs[i].selection = SelectionAll}
ViewInputs == {p \in ViewProps : p.files \in ViewFileLists}

NextView ==
    \/ \E p \in ViewInputs : RepositoryView_componentWillMount(p)
    \/ \E p \in ViewInputs : RepositoryView_componentWillReceiveProps(p)
    \/ RepositoryView_render
    \/ \E e \in KeyEvents : onKeyDown(e)
    \/ openRepository

SpecView == InitView /\ [][NextView]_vars

----------------------------------------------------------------------------
(* Claims about RepositoryView, checked under SpecView *)

SectionRequest(repository, section) ==
    [Call("changeRepositorySection", repository) EXCEPT !.section = section]

\* C3: a key event with Ctrl held and key 'Tab' dispatches exactly one
\* changeRepositorySection for the current repository, with section Changes
\* when the selected section is History and History when it is Changes, and
\* suppresses the default action; every other key event dispatches nothing
\* and does not suppress the default action.
C3_KeyDown ==
    last.op = "onKeyDown" =>
        IF last.ctrlKey /\ last.key = "Tab"
        THEN /\ Len(calls) = 1
             /\ calls[1].op = "changeRepositorySection"
             /\ calls[1].repository = rvProps.repository
             /\ rvProps.selectedSection = SectionHistory
                   => calls[1].section = SectionChanges
             /\ rvProps.selectedSection = SectionChanges
                   => calls[1].section = SectionHistory
             /\ defaultPrevented
        ELSE /\ calls = <<>>
             /\ ~defaultPrevented

\* Ctrl+Tab pressed while History is selected: one request, for Changes.
C3_Witness ==
    /\ last.op = "onKeyDown"
    /\ last.ctrlKey
    /\ last.key = "Tab"
    /\ rvProps.selectedSection = SectionHistory
    /\ calls = << SectionRequest(rvProps.repository, SectionChanges) >>
    /\ defaultPrevented

\* C6: on mount, and on every property update whose incoming repository name
\* differs from the current one, the view requests Changes and then History
\* for the incoming repository; on an update with the same name it requests
\* nothing.
C6_Nudge ==
    [][ last'.op \in {"componentWillMount", "view.componentWillReceiveProps"} =>
          calls' = IF \/ ~rvMounted
                      \/ rvProps'.repository.name # rvProps.repository.name
                   THEN << SectionRequest(rvProps'.repository, SectionChanges),
                           SectionRequest(rvProps'.repository, SectionHistory) >>
                   ELSE <<>> ]_vars

\* An update that delivered a repository of another name: both requests,
\* for the repository now current.
C6_Witness ==
    /\ last.op = "view.componentWillReceiveProps"
    /\ calls = << SectionRequest(rvProps.repository, SectionChanges),
                  SectionRequest(rvProps.repository, SectionHistory) >>

\* C8: a selected section that is neither Changes nor History is rejected as
\* fatal: rendering with it, or handling the tab-cycle key with it, reaches
\* assertNever and does not treat it as one of the two sections.
C8_UnknownSectionFatal ==
    /\ ( /\ last.op = "view.render"
         /\ rvProps.selectedSection \notin RepositorySection )
       => view.fatal
    /\ ( /\ last.op = "onKeyDown"
         /\ last.ctrlKey /\ last.key = "Tab"
         /\ rvProps.selectedSection \notin RepositorySection )
       => view.fatal /\ calls = <<>>

\* C9: the requests issued on mount or on a repository change are not a
\* navigation: once the dispatcher has applied them, the selected section of
\* the repository is the one that was selected before them (the one in the
\* state snapshot delivered with the props).
C9_NudgeKeepsSection ==
    ( /\ last.op \in {"componentWillMount", "view.componentWillReceiveProps"}
      /\ calls # <<>>
      /\ rvProps.selectedSection \in RepositorySection )
    => sectionOf[rvProps.repository.id] = rvProps.selectedSection

=============================================================================
